---- MODULE Spec2Model ----
(***************************************************************************)
(* Model of auto-clicker (src/src/main.rs): the supervisor loop of main()  *)
(* and the click threads running execute_click_sequence().                 *)
(*                                                                         *)
(* The supervisor and every click thread advance one shared-memory access  *)
(* (a load or store of should_stop), one sleep, one click or one join at a *)
(* time; computations on locals are folded into the step that precedes     *)
(* them.  should_stop is a single atomic location: a load returns the last *)
(* value stored.                                                           *)
(***************************************************************************)
EXTENDS Integers, Sequences, FiniteSets, TLC

(* ------------------------------------------------------------------ *)
(* Bounds of the model                                                 *)
(* ------------------------------------------------------------------ *)

\* Longest `points` list a configuration file holds.
MaxPoints == 2

\* Thread slots the operating system offers; main() needs one.
MaxThreads == 2

\* Saturation of the per-run counters of work done after a stop request.
CountCap == 3

(* ------------------------------------------------------------------ *)
(* Program constants                                                   *)
(* ------------------------------------------------------------------ *)

\* The sleep quantum of every delay loop: `if remaining_delay > 10 { 10 }`.
Quantum == 10

\* high_precision_sleep(10): the supervisor's sleep when no thread runs.
IdleTick == 10

\* high_precision_sleep(1): the supervisor's sleep while a thread runs.
RunTick == 1

(* ------------------------------------------------------------------ *)
(* Configurations (struct Config)                                      *)
(* ------------------------------------------------------------------ *)

\* [x, y, pre_delay, post_delay] entries a file may hold (i32 each):
\* zero, sub-quantum, multi-quantum and negative delays.
PointPool ==
    { <<100, 200, 0, 5>>, <<300, 400, 12, 0>>, <<7, 9, -1, -3>> }

\* The lists of at most n distinct members of S, in every order.
RECURSIVE SeqsUpTo(_, _)
SeqsUpTo(S, n) ==
    IF n = 0 THEN { << >> }
    ELSE LET shorter == SeqsUpTo(S, n - 1)
             longest == { q \in shorter : Len(q) = n - 1 }
         IN  shorter \cup
             UNION { { Append(q, e) : e \in S \ { q[i] : i \in 1 .. Len(q) } } : q \in longest }

\* <<pre_round_delay, post_round_delay>> (u64 each): none, both (more than
\* one quantum each, the second a whole number of quanta), post only.
RoundDelays == { << 0, 0 >>, << 12, 20 >>, << 0, 20 >> }

Configs ==
    { [ points |-> p, pre_round_delay |-> d[1], post_round_delay |-> d[2] ] :
        p \in SeqsUpTo(PointPool, MaxPoints), d \in RoundDelays }

NoConfig == [ points |-> << >>, pre_round_delay |-> 0, post_round_delay |-> 0 ]

ThreadIds == 1 .. MaxThreads

\* Option<JoinHandle<()>>::None
None == 0

(* ------------------------------------------------------------------ *)
(* State                                                               *)
(* ------------------------------------------------------------------ *)

VARIABLES
    mpc,                  \* position of main()
    dpi_aware,            \* whether SetProcessDPIAware() succeeded
    config,               \* the loaded Config
    should_stop,          \* Arc<AtomicBool>
    click_thread_handle,  \* Option<JoinHandle>: None or a thread id
    handle,               \* the handle moved out by take(), while joined
    loaded,               \* how Config::from_file ended
    threads,              \* the click threads, by id
    tick,                 \* history of the current supervisor iteration
    join_failed           \* history: some join() has returned Err

vars == << mpc, dpi_aware, config, loaded, should_stop, click_thread_handle, handle, threads, tick,
          join_failed >>

\* A thread slot nobody runs in.
IdleThread ==
    [ status |-> "unused", pc |-> "round_check", idx |-> 0,
      remaining_delay |-> 0, sleep_time |-> 0,
      \* history of the current (or last) delay loop
      wPhase |-> "none", wTotal |-> 0, wSlept |-> 0, wSawStop |-> FALSE, wActive |-> FALSE,
      \* history of the current (or last) round
      log |-> << >>, roundEnded |-> FALSE, observed |-> FALSE, clickFailed |-> FALSE,
      \* history of the run
      cancelled |-> FALSE, quantaAfterCancel |-> 0, clicksAfterCancel |-> 0 ]

\* The signals sampled in this iteration, the branch taken, whether it
\* joined a thread, the flag value a start overwrote, and its sleeps.
NewTick ==
    [ escape |-> FALSE, trigger |-> FALSE, branch |-> "none",
      joined |-> FALSE, joinFailed |-> FALSE, stale |-> FALSE, sleeps |-> << >>,
      \* where the thread last run in the slot of a new thread had got to
      prevIdx |-> 0, prevRemaining |-> 0 ]

Init ==
    /\ mpc = "start"
    /\ dpi_aware = FALSE
    /\ config = NoConfig
    /\ loaded = "pending"
    /\ should_stop = FALSE
    /\ click_thread_handle = None
    /\ handle = None
    /\ threads = [ t \in ThreadIds |-> IdleThread ]
    /\ tick = NewTick
    /\ join_failed = FALSE

(* ------------------------------------------------------------------ *)
(* Pure helpers                                                        *)
(* ------------------------------------------------------------------ *)

\* Faulty variant: the whole remaining delay in one sleep.
SleepAll(remaining) == remaining

\* `let sleep_time = if remaining_delay > 10 { 10 } else { remaining_delay };`
SleepTime(remaining) == IF remaining > Quantum THEN Quantum ELSE remaining

\* high_precision_sleep(ms): the time the caller is suspended; 0 returns at
\* once.  (saturating_mul only matters beyond 2^64 / 10^6 ms.)
HighPrecisionSleep(milliseconds) == IF milliseconds = 0 THEN 0 ELSE milliseconds

\* `pre_delay as u64` of an i32: a negative value wraps to a huge unsigned
\* one.  The model's integers are 32 bits wide, so the wrap is taken modulo
\* 2^31 instead of 2^64: huge, and still ordered as the original.
AsU64(v) == IF v >= 0 THEN v ELSE (2147483647 + v) + 1

\* The observable trace of a round: sleeps (adjacent ones add up) and
\* simulate_click calls.
LogSleep(log, ms) ==
    IF ms = 0 THEN log
    ELSE IF Len(log) > 0 /\ log[Len(log)][1] = "sleep"
         THEN [ log EXCEPT ![Len(log)] = << "sleep", @[2] + ms >> ]
         ELSE Append(log, << "sleep", ms >>)

LogClick(log, x, y) == Append(log, << "click", x, y >>)

Bump(n) == IF n < CountCap THEN n + 1 ELSE n

\* simulate_click: SetCursorPos may fail (nothing is sent), SendInput may
\* deliver fewer than two events, or both succeed.
ClickOutcomes == { "ok", "cursor_failed", "send_failed" }

(* ------------------------------------------------------------------ *)
(* execute_click_sequence, run by thread t                             *)
(* ------------------------------------------------------------------ *)

ProcessAlive == mpc \notin { "exit_ok", "exit_err" }

Running(t) == ProcessAlive /\ threads[t].status = "live"

SetThread(t, r) == threads' = [ threads EXCEPT ![t] = r ]

RunnerFrame ==
    UNCHANGED << mpc, dpi_aware, config, loaded, should_stop, click_thread_handle, handle, tick,
                 join_failed >>

\* Faulty variant: `continue` where the loop should `break`.
ContinueLoop(r) == [ r EXCEPT !.pc = "round_check" ]

\* The function returns: the thread ends and can be joined.
Return(r) == [ r EXCEPT !.status = "returned", !.pc = "returned" ]

\* Where control goes when the delay loop of `phase` is left or skipped.
AfterDelay(r, phase) ==
    CASE phase = "pre_round"  -> [ r EXCEPT !.pc = "pre_round_stop_check" ]
      [] phase = "pre_click"  -> [ r EXCEPT !.pc = "click_check" ]
      [] phase = "post_click" -> [ r EXCEPT !.pc = "step_check", !.idx = @ + 1 ]
      [] phase = "post_round" -> [ r EXCEPT !.pc = "round_check", !.roundEnded = TRUE ]

\* Faulty variant: `if d != 0`, so that a negative delay is cast and waited.
DelayNonZero(r, phase, d) ==
    IF d # 0
    THEN [ r EXCEPT !.pc = "delay_check", !.remaining_delay = AsU64(d),
                    !.wPhase = phase, !.wTotal = AsU64(d), !.wSlept = 0,
                    !.wSawStop = FALSE, !.wActive = TRUE ]
    ELSE AfterDelay(r, phase)

\* `if d > 0 { let mut remaining_delay = d as u64; while ... }`
Delay(r, phase, d) ==
    IF d > 0
    THEN [ r EXCEPT !.pc = "delay_check", !.remaining_delay = AsU64(d),
                    !.wPhase = phase, !.wTotal = AsU64(d), !.wSlept = 0,
                    !.wSawStop = FALSE, !.wActive = TRUE ]
    ELSE AfterDelay(r, phase)

\* Faulty variant: every iteration uses the first point.
PointFirst(r) == config.points[1]

\* `let [x, y, pre_delay, post_delay] = *point;`
Point(r) == config.points[r.idx]

\* `break` out of the for loop: on to the post-round delay.
BreakRound(r) == Delay([ r EXCEPT !.observed = TRUE ], "post_round", config.post_round_delay)

\* Faulty variant: `while remaining_delay > 0`, the flag never read.
DelayCheckNoStop(t, phase) ==
    /\ Running(t)
    /\ threads[t].pc = "delay_check"
    /\ threads[t].wPhase = phase
    /\ LET r == threads[t]
       IN  IF r.remaining_delay = 0
           THEN SetThread(t, AfterDelay([ r EXCEPT !.wActive = FALSE ], phase))
           ELSE SetThread(t, [ r EXCEPT !.pc = "delay_sleep",
                                        !.sleep_time = SleepTime(r.remaining_delay) ])
    /\ RunnerFrame

\* `while remaining_delay > 0 && !should_stop.load(Relaxed)`: the flag is
\* read only when time remains.
DelayCheck(t, phase) ==
    /\ Running(t)
    /\ threads[t].pc = "delay_check"
    /\ threads[t].wPhase = phase
    /\ LET r == threads[t]
       IN  IF r.remaining_delay = 0
           THEN SetThread(t, AfterDelay([ r EXCEPT !.wActive = FALSE ], phase))
           ELSE IF should_stop
                THEN SetThread(t, AfterDelay([ r EXCEPT !.wActive = FALSE, !.wSawStop = TRUE,
                                                        !.observed = TRUE ], phase))
                ELSE SetThread(t, [ r EXCEPT !.pc = "delay_sleep",
                                             !.sleep_time = SleepTime(r.remaining_delay) ])
    /\ RunnerFrame

\* `high_precision_sleep(sleep_time); remaining_delay -= sleep_time;`
DelaySleep(t, phase) ==
    /\ Running(t)
    /\ threads[t].pc = "delay_sleep"
    /\ threads[t].wPhase = phase
    /\ LET r == threads[t]
           slept == HighPrecisionSleep(r.sleep_time)
       IN  SetThread(t, [ r EXCEPT !.pc = "delay_check",
                                   !.remaining_delay = @ - r.sleep_time,
                                   !.wSlept = @ + slept,
                                   !.log = LogSleep(@, slept),
                                   !.quantaAfterCancel = IF r.cancelled THEN Bump(@) ELSE @ ])
    /\ RunnerFrame

PreRoundDelay(t) == DelayCheck(t, "pre_round") \/ DelaySleep(t, "pre_round")

PreClickDelay(t) == DelayCheck(t, "pre_click") \/ DelaySleep(t, "pre_click")

PostClickDelay(t) == DelayCheck(t, "post_click") \/ DelaySleep(t, "post_click")

PostRoundDelay(t) == DelayCheck(t, "post_round") \/ DelaySleep(t, "post_round")

\* Faulty variant: the runner also returns once a round is complete.
RoundCheckOnce(t) ==
    /\ Running(t)
    /\ threads[t].pc = "round_check"
    /\ LET r == threads[t]
       IN  IF should_stop \/ r.roundEnded
           THEN SetThread(t, Return(r))
           ELSE SetThread(t, Delay([ r EXCEPT !.idx = 0, !.log = << >>, !.roundEnded = FALSE,
                                              !.observed = FALSE, !.clickFailed = FALSE ],
                                   "pre_round", config.pre_round_delay))
    /\ RunnerFrame


\* Faulty variant: the runner clears the flag it has just seen set.
RoundCheckResets(t) ==
    /\ Running(t)
    /\ threads[t].pc = "round_check"
    /\ LET r == threads[t]
       IN  IF should_stop
           THEN /\ SetThread(t, Return(r))
                /\ should_stop' = FALSE
           ELSE /\ SetThread(t, Delay([ r EXCEPT !.idx = 0, !.log = << >>, !.roundEnded = FALSE,
                                                 !.observed = FALSE, !.clickFailed = FALSE ],
                                      "pre_round", config.pre_round_delay))
                /\ should_stop' = should_stop
    /\ UNCHANGED << mpc, dpi_aware, config, loaded, click_thread_handle, handle, tick, join_failed >>


\* Top of `loop`: leave when the flag is set, else start a round.
RoundCheck(t) ==
    /\ Running(t)
    /\ threads[t].pc = "round_check"
    /\ LET r == threads[t]
       IN  IF should_stop
           THEN SetThread(t, Return(r))
           ELSE SetThread(t, Delay([ r EXCEPT !.idx = 0, !.log = << >>, !.roundEnded = FALSE,
                                              !.observed = FALSE, !.clickFailed = FALSE ],
                                   "pre_round", config.pre_round_delay))
    /\ RunnerFrame

\* The check after the pre-round delay; then the for loop starts.
PreRoundStopCheck(t) ==
    /\ Running(t)
    /\ threads[t].pc = "pre_round_stop_check"
    /\ LET r == threads[t]
       IN  IF should_stop
           THEN SetThread(t, Return(r))
           ELSE SetThread(t, [ r EXCEPT !.pc = "step_check", !.idx = 1 ])
    /\ RunnerFrame

\* Faulty variant: the for loop without its entry check.
StepCheckNoStop(t) ==
    /\ Running(t)
    /\ threads[t].pc = "step_check"
    /\ LET r == threads[t]
       IN  IF r.idx > Len(config.points)
           THEN SetThread(t, Delay(r, "post_round", config.post_round_delay))
           ELSE SetThread(t, Delay(r, "pre_click", Point(r)[3]))
    /\ RunnerFrame

\* `for point in &config.points`: the next point, if any, and its entry check.
StepCheck(t) ==
    /\ Running(t)
    /\ threads[t].pc = "step_check"
    /\ LET r == threads[t]
       IN  IF r.idx > Len(config.points)
           THEN SetThread(t, Delay(r, "post_round", config.post_round_delay))
           ELSE IF should_stop
                THEN SetThread(t, BreakRound(r))
                ELSE SetThread(t, Delay(r, "pre_click", Point(r)[3]))
    /\ RunnerFrame

\* The check between the pre-click delay and the click.
ClickCheck(t) ==
    /\ Running(t)
    /\ threads[t].pc = "click_check"
    /\ LET r == threads[t]
       IN  IF should_stop
           THEN SetThread(t, BreakRound(r))
           ELSE SetThread(t, [ r EXCEPT !.pc = "click" ])
    /\ RunnerFrame

\* Faulty variant: a failed click ends the function.
ClickAbortsOnError(t) ==
    /\ Running(t)
    /\ threads[t].pc = "click"
    /\ \E outcome \in ClickOutcomes :
         LET r == threads[t]
             point == Point(r)
             clicked == [ r EXCEPT !.log = LogClick(@, point[1], point[2]),
                                   !.clickFailed = @ \/ outcome # "ok",
                                   !.clicksAfterCancel = IF r.cancelled THEN Bump(@) ELSE @ ]
         IN  IF outcome = "ok"
             THEN SetThread(t, Delay(clicked, "post_click", point[4]))
             ELSE SetThread(t, Return(clicked))
    /\ RunnerFrame

\* `let _ = simulate_click(x, y);` and the entry of the post-click delay.
Click(t) ==
    /\ Running(t)
    /\ threads[t].pc = "click"
    /\ \E outcome \in ClickOutcomes :
         LET r == threads[t]
             point == Point(r)
         IN  SetThread(t, Delay([ r EXCEPT !.log = LogClick(@, point[1], point[2]),
                                           !.clickFailed = @ \/ outcome # "ok",
                                           !.clicksAfterCancel = IF r.cancelled THEN Bump(@) ELSE @ ],
                                "post_click", point[4]))
    /\ RunnerFrame

Runner(t) ==
    \/ RoundCheck(t)
    \/ PreRoundDelay(t)
    \/ PreRoundStopCheck(t)
    \/ StepCheck(t)
    \/ PreClickDelay(t)
    \/ ClickCheck(t)
    \/ Click(t)
    \/ PostClickDelay(t)
    \/ PostRoundDelay(t)

(* ------------------------------------------------------------------ *)
(* main(): start-up and the supervisor loop                            *)
(* ------------------------------------------------------------------ *)

MainFrame == UNCHANGED << dpi_aware, config, loaded, join_failed >>

\* The same for the steps that join a thread.
JoinFrame == UNCHANGED << dpi_aware, config, loaded >>

\* JoinHandle::join() is Err exactly when the thread's closure panicked.
JoinErr(r) == r.status = "panicked"

\* join() returns once the thread has ended, by return or by unwinding.
Ended(r) == r.status \in { "returned", "panicked" }

\* History: a stop request reaches every thread that exists.
MarkCancelled ==
    [ t \in ThreadIds |->
        IF threads[t].status = "unused" THEN threads[t]
        ELSE [ threads[t] EXCEPT !.cancelled = TRUE ] ]

\* A joined thread is gone: its slot is free again (the slot keeps the
\* history of the thread until the next spawn).
Joined(r) == [ r EXCEPT !.status = "unused" ]

\* The slot thread::spawn gives the new thread.
FreeThreads == { t \in ThreadIds : threads[t].status = "unused" }

NextThread == CHOOSE t \in FreeThreads : \A u \in FreeThreads : t <= u

\* `let _ = set_dpi_awareness();`
SetDpiAwareness ==
    /\ mpc = "start"
    /\ \E ok \in BOOLEAN : dpi_aware' = ok
    /\ mpc' = "load_config"
    /\ UNCHANGED << join_failed, config, loaded, should_stop, click_thread_handle, handle, threads, tick >>

\* Faulty variant: a file that cannot be read or parsed yields an empty
\* default configuration.
LoadConfigDefaults ==
    /\ mpc = "load_config"
    /\ \E outcome \in { "unreadable", "malformed", "ok" } :
         /\ loaded' = outcome
         /\ IF outcome = "ok" THEN config' \in Configs ELSE config' = NoConfig
    /\ mpc' = "loop_top"
    /\ should_stop' = FALSE
    /\ click_thread_handle' = None
    /\ UNCHANGED << dpi_aware, handle, threads, tick, join_failed >>

\* `Config::from_file("config.json")...?`, then the flag and the empty handle.
LoadConfig ==
    /\ mpc = "load_config"
    /\ \E outcome \in { "unreadable", "malformed", "ok" } :
         /\ loaded' = outcome
         /\ IF outcome = "ok"
            THEN /\ config' \in Configs
                 /\ mpc' = "loop_top"
            ELSE /\ config' = config
                 /\ mpc' = "exit_err"
    /\ should_stop' = FALSE
    /\ click_thread_handle' = None
    /\ UNCHANGED << dpi_aware, handle, threads, tick, join_failed >>

\* `if is_escape_pressed()`: the first test of every iteration.
CheckEscape ==
    /\ mpc = "loop_top"
    /\ \E escape \in BOOLEAN :
         IF escape
         THEN /\ mpc' = "esc_store"
              /\ tick' = [ NewTick EXCEPT !.escape = TRUE, !.branch = "cancel" ]
         ELSE /\ mpc' = "sample_trigger"
              /\ tick' = NewTick
    /\ UNCHANGED << should_stop, click_thread_handle, handle, threads >>
    /\ MainFrame

\* `should_stop.store(true, Relaxed)` of the escape branch.
EscStore ==
    /\ mpc = "esc_store"
    /\ should_stop' = TRUE
    /\ threads' = MarkCancelled
    /\ mpc' = "esc_take"
    /\ UNCHANGED << click_thread_handle, handle, tick >>
    /\ MainFrame

\* Faulty variant: `break` without joining the thread.
EscTakeNoJoin ==
    /\ mpc = "esc_take"
    /\ click_thread_handle' = None
    /\ mpc' = "exit_ok"
    /\ UNCHANGED << should_stop, handle, threads, tick >>
    /\ MainFrame

\* `if let Some(handle) = click_thread_handle.take()`, else `break`.
EscTake ==
    /\ mpc = "esc_take"
    /\ IF click_thread_handle # None
       THEN /\ handle' = click_thread_handle
            /\ mpc' = "esc_join"
       ELSE /\ handle' = handle
            /\ mpc' = "exit_ok"
    /\ click_thread_handle' = None
    /\ UNCHANGED << should_stop, threads, tick >>
    /\ MainFrame

\* `let _ = handle.join();` then `break` and `Ok(())`.
EscJoin ==
    /\ mpc = "esc_join"
    /\ Ended(threads[handle])
    /\ threads' = [ threads EXCEPT ![handle] = Joined(@) ]
    /\ tick' = [ tick EXCEPT !.joined = TRUE, !.joinFailed = JoinErr(threads[handle]) ]
    /\ join_failed' = (join_failed \/ JoinErr(threads[handle]))
    /\ handle' = None
    /\ mpc' = "exit_ok"
    /\ UNCHANGED << should_stop, click_thread_handle >>
    /\ JoinFrame

\* Faulty variant: `else if !side_button1_pressed`, whether or not a thread
\* is running.
BranchStopWhenReleased(side_button1_pressed) ==
    IF side_button1_pressed /\ click_thread_handle = None THEN "start"
    ELSE IF ~side_button1_pressed THEN "stop"
    ELSE IF click_thread_handle = None THEN "idle"
    ELSE "hold"

\* The if / else if / else if chain on the sampled trigger and the handle.
Branch(side_button1_pressed) ==
    IF side_button1_pressed /\ click_thread_handle = None THEN "start"
    ELSE IF ~side_button1_pressed /\ click_thread_handle # None THEN "stop"
    ELSE IF click_thread_handle = None THEN "idle"
    ELSE "hold"

\* `let side_button1_pressed = is_side_button1_pressed();` and the choice
\* among the three branches (or none).
SampleTrigger ==
    /\ mpc = "sample_trigger"
    /\ \E side_button1_pressed \in BOOLEAN :
         LET branch == Branch(side_button1_pressed)
         IN  /\ tick' = [ tick EXCEPT !.trigger = side_button1_pressed, !.branch = branch ]
             /\ mpc' = CASE branch = "start" -> "start_clear"
                         [] branch = "stop"  -> "stop_store"
                         [] branch = "idle"  -> "idle_sleep"
                         [] branch = "hold"  -> "tail"
    /\ UNCHANGED << should_stop, click_thread_handle, handle, threads >>
    /\ MainFrame

\* Faulty variant: the flag is not reset before the spawn.
StartClearSkipped ==
    /\ mpc = "start_clear"
    /\ tick' = [ tick EXCEPT !.stale = should_stop ]
    /\ mpc' = "spawn"
    /\ UNCHANGED << should_stop, click_thread_handle, handle, threads >>
    /\ MainFrame

\* `should_stop.store(false, Relaxed)`
StartClear ==
    /\ mpc = "start_clear"
    /\ should_stop' = FALSE
    /\ tick' = [ tick EXCEPT !.stale = should_stop ]
    /\ mpc' = "spawn"
    /\ UNCHANGED << click_thread_handle, handle, threads >>
    /\ MainFrame

\* Faulty variant: the thread is spawned and its handle dropped.
SpawnDetached ==
    /\ mpc = "spawn"
    /\ FreeThreads # {}
    /\ threads' = [ threads EXCEPT ![NextThread] = [ IdleThread EXCEPT !.status = "live" ] ]
    /\ mpc' = "tail"
    /\ UNCHANGED << should_stop, click_thread_handle, handle, tick >>
    /\ MainFrame

\* Faulty variant: the position in the sequence outlives the thread, and
\* the new thread takes up where the last one was stopped.
SpawnResume ==
    /\ mpc = "spawn"
    /\ FreeThreads # {}
    /\ threads' = [ threads EXCEPT ![NextThread] =
                      [ IdleThread EXCEPT !.status = "live",
                                          !.pc = IF threads[NextThread].idx >= 1
                                                 THEN "step_check" ELSE "round_check",
                                          !.idx = threads[NextThread].idx ] ]
    /\ click_thread_handle' = NextThread
    /\ tick' = [ tick EXCEPT !.prevIdx = threads[NextThread].idx,
                             !.prevRemaining = threads[NextThread].remaining_delay ]
    /\ mpc' = "tail"
    /\ UNCHANGED << should_stop, handle >>
    /\ MainFrame

\* `click_thread_handle = Some(thread::spawn(...))`
Spawn ==
    /\ mpc = "spawn"
    /\ FreeThreads # {}
    /\ threads' = [ threads EXCEPT ![NextThread] = [ IdleThread EXCEPT !.status = "live" ] ]
    /\ click_thread_handle' = NextThread
    /\ tick' = [ tick EXCEPT !.prevIdx = threads[NextThread].idx,
                             !.prevRemaining = threads[NextThread].remaining_delay ]
    /\ mpc' = "tail"
    /\ UNCHANGED << should_stop, handle >>
    /\ MainFrame

\* Faulty variant: the release branch joins without setting the flag.
StopStoreSkipped ==
    /\ mpc = "stop_store"
    /\ mpc' = "stop_take"
    /\ UNCHANGED << should_stop, click_thread_handle, handle, threads, tick >>
    /\ MainFrame

\* `should_stop.store(true, Relaxed)` of the release branch.
StopStore ==
    /\ mpc = "stop_store"
    /\ should_stop' = TRUE
    /\ threads' = MarkCancelled
    /\ mpc' = "stop_take"
    /\ UNCHANGED << click_thread_handle, handle, tick >>
    /\ MainFrame

\* Faulty variant: the handle is taken and dropped, the thread not joined.
StopTakeNoJoin ==
    /\ mpc = "stop_take"
    /\ click_thread_handle' = None
    /\ mpc' = "tail"
    /\ UNCHANGED << should_stop, handle, threads, tick >>
    /\ MainFrame

\* `if let Some(handle) = click_thread_handle.take()`
StopTake ==
    /\ mpc = "stop_take"
    /\ IF click_thread_handle # None
       THEN /\ handle' = click_thread_handle
            /\ mpc' = "stop_join"
       ELSE /\ handle' = handle
            /\ mpc' = "tail"
    /\ click_thread_handle' = None
    /\ UNCHANGED << should_stop, threads, tick >>
    /\ MainFrame

\* Faulty variant: a join that does not wait for the thread.
StopJoinDetached ==
    /\ mpc = "stop_join"
    /\ tick' = [ tick EXCEPT !.joined = TRUE ]
    /\ handle' = None
    /\ mpc' = "tail"
    /\ UNCHANGED << should_stop, click_thread_handle, threads >>
    /\ MainFrame

\* Faulty variant: `handle.join().map_err(...)?`, an Err ends main.
StopJoinFatal ==
    /\ mpc = "stop_join"
    /\ Ended(threads[handle])
    /\ threads' = [ threads EXCEPT ![handle] = Joined(@) ]
    /\ tick' = [ tick EXCEPT !.joined = TRUE, !.joinFailed = JoinErr(threads[handle]) ]
    /\ join_failed' = (join_failed \/ JoinErr(threads[handle]))
    /\ handle' = None
    /\ mpc' = IF JoinErr(threads[handle]) THEN "exit_err" ELSE "tail"
    /\ UNCHANGED << should_stop, click_thread_handle >>
    /\ JoinFrame

\* `let _ = handle.join();`: blocks until the thread has returned.
StopJoin ==
    /\ mpc = "stop_join"
    /\ Ended(threads[handle])
    /\ threads' = [ threads EXCEPT ![handle] = Joined(@) ]
    /\ tick' = [ tick EXCEPT !.joined = TRUE, !.joinFailed = JoinErr(threads[handle]) ]
    /\ join_failed' = (join_failed \/ JoinErr(threads[handle]))
    /\ handle' = None
    /\ mpc' = "tail"
    /\ UNCHANGED << should_stop, click_thread_handle >>
    /\ JoinFrame

\* `else if click_thread_handle.is_none() { high_precision_sleep(10); }`
IdleSleep ==
    /\ mpc = "idle_sleep"
    /\ tick' = [ tick EXCEPT !.sleeps = Append(@, HighPrecisionSleep(IdleTick)) ]
    /\ mpc' = "tail"
    /\ UNCHANGED << should_stop, click_thread_handle, handle, threads >>
    /\ MainFrame

\* Faulty variant: the short sleep closes every iteration.
RunSleepAlways ==
    /\ mpc = "tail"
    /\ tick' = [ tick EXCEPT !.sleeps = Append(@, HighPrecisionSleep(RunTick)) ]
    /\ mpc' = "loop_top"
    /\ UNCHANGED << should_stop, click_thread_handle, handle, threads >>
    /\ MainFrame


\* `if click_thread_handle.is_some() { high_precision_sleep(1); }`, and around.
RunSleep ==
    /\ mpc = "tail"
    /\ tick' = IF click_thread_handle # None
               THEN [ tick EXCEPT !.sleeps = Append(@, HighPrecisionSleep(RunTick)) ]
               ELSE tick
    /\ mpc' = "loop_top"
    /\ UNCHANGED << should_stop, click_thread_handle, handle, threads >>
    /\ MainFrame

Supervisor ==
    \/ SetDpiAwareness
    \/ LoadConfig
    \/ CheckEscape
    \/ EscStore
    \/ EscTake
    \/ EscJoin
    \/ SampleTrigger
    \/ StartClear
    \/ Spawn
    \/ StopStore
    \/ StopTake
    \/ StopJoin
    \/ IdleSleep
    \/ RunSleep

Next == Supervisor \/ \E t \in ThreadIds : Runner(t)

Spec == Init /\ [][Next]_vars

\* A fault the source does not contain: the closure of thread t panics and
\* the thread ends by unwinding.
Panic(t) ==
    /\ Running(t)
    /\ SetThread(t, [ threads[t] EXCEPT !.status = "panicked", !.pc = "panicked" ])
    /\ RunnerFrame

\* The program with click threads that may panic.
PanicNext == Next \/ \E t \in ThreadIds : Panic(t)

PanicSpec == Init /\ [][PanicNext]_vars

\* Both threads are scheduled by the operating system: neither is starved.
FairSpec == Spec /\ WF_vars(Supervisor) /\ \A t \in ThreadIds : WF_vars(Runner(t))

(* ------------------------------------------------------------------ *)
(* Vocabulary of the properties                                        *)
(* ------------------------------------------------------------------ *)

\* Threads that were spawned and not yet joined.
Existing == { t \in ThreadIds : threads[t].status # "unused" }

Live == { t \in ThreadIds : threads[t].status = "live" }

\* This step spawns thread t.
Spawned(t) == threads[t].status = "unused" /\ threads'[t].status = "live"

\* This step takes thread t past the entry check of a round.
EntersRound(t) ==
    /\ threads[t].status = "live" /\ threads[t].pc = "round_check"
    /\ threads'[t].status = "live" /\ threads'[t].pc # "round_check"

\* This step takes thread t past the entry check of a step of the for loop.
EntersStep(t) ==
    /\ threads[t].status = "live" /\ threads[t].pc = "step_check"
    /\ \/ threads'[t].pc \in { "click_check", "click" }
       \/ threads'[t].pc = "delay_check" /\ threads'[t].wPhase = "pre_click"

Joining == mpc \in { "stop_join", "esc_join" }

(* ------------------------------------------------------------------ *)
(* C1: at most one click thread exists at any instant, and a thread is *)
(* spawned only when no handle is stored and every thread spawned      *)
(* before has been joined.                                             *)
(* ------------------------------------------------------------------ *)
C1_AtMostOneRun ==
    /\ [](Cardinality(Existing) <= 1)
    /\ [][ \A t \in ThreadIds :
             Spawned(t) => click_thread_handle = None /\ handle = None /\ Existing = {} ]_vars

\* The trigger is held again after a run was stopped and joined: the next
\* run is about to start.
C1_Witness ==
    /\ mpc = "start_clear"
    /\ should_stop
    /\ Existing = {}

(* ------------------------------------------------------------------ *)
(* C2: once the flag has been set for a run, its thread passes neither *)
(* the entry check of a round nor the entry check of a step.           *)
(* ------------------------------------------------------------------ *)
C2_NoNewRoundOrStep ==
    [][ \A t \in ThreadIds :
          (threads[t].status = "live" /\ threads[t].cancelled)
              => ~EntersRound(t) /\ ~EntersStep(t) ]_vars

\* A cancelled thread stands at the entry check of a step it has not begun.
C2_Witness ==
    \E t \in ThreadIds :
        /\ threads[t].status = "live"
        /\ threads[t].cancelled
        /\ threads[t].pc = "step_check"
        /\ threads[t].idx <= Len(config.points)

(* ------------------------------------------------------------------ *)
(* C3: under fair scheduling a thread whose flag has been set          *)
(* eventually returns, and every join of the supervisor returns.       *)
(* ------------------------------------------------------------------ *)
C3_StopLiveness ==
    /\ \A t \in ThreadIds :
         (should_stop /\ threads[t].status = "live") ~> (threads[t].status # "live")
    /\ Joining ~> ~Joining

\* With no points and no delays, the thread has seen the flag and returned,
\* and the supervisor's join is about to return.
C3_Witness ==
    /\ mpc = "stop_join"
    /\ config.points = << >>
    /\ config.pre_round_delay = 0
    /\ config.post_round_delay = 0
    /\ threads[handle].status = "returned"

(* ------------------------------------------------------------------ *)
(* C4: after the flag is set a thread starts at most one more sleep,   *)
(* of at most one quantum, and makes at most one more click.           *)
(* ------------------------------------------------------------------ *)
C4_BoundedWorkAfterCancel ==
    \A t \in ThreadIds :
        /\ threads[t].quantaAfterCancel <= 1
        /\ threads[t].clicksAfterCancel <= 1
        /\ threads[t].pc = "delay_sleep" => threads[t].sleep_time <= Quantum

\* A thread has returned after one click made after the flag was set.
C4_Witness ==
    \E t \in ThreadIds :
        /\ threads[t].status = "returned"
        /\ threads[t].clicksAfterCancel = 1

(* ------------------------------------------------------------------ *)
(* C5: in the release branch (escape and trigger both sampled false, a *)
(* handle stored) the supervisor sets the flag, then joins the taken   *)
(* handle, then has no handle; when the branch is done the thread has  *)
(* returned, no handle is left and the flag is still set.              *)
(* ------------------------------------------------------------------ *)
C5_StopOrdering ==
    /\ [](mpc \in { "stop_take", "stop_join" } => should_stop)
    /\ [](mpc = "stop_join" => handle # None /\ threads[handle].cancelled)
    /\ []((tick.branch = "stop" /\ mpc \in { "tail", "loop_top" })
            => /\ should_stop
               /\ tick.joined
               /\ click_thread_handle = None
               /\ handle = None
               /\ Existing = {})
    /\ [][ mpc' # mpc =>
             /\ mpc' = "stop_store"
                  => ~tick'.escape /\ ~tick'.trigger /\ click_thread_handle # None
             /\ mpc = "stop_store" => mpc' = "stop_take" /\ should_stop'
             /\ mpc = "stop_take" => mpc' = "stop_join" /\ handle' = click_thread_handle
             /\ mpc = "stop_join"
                  => mpc' = "tail" /\ threads[handle].status = "returned" /\ handle' = None ]_vars

\* The release branch is done: the supervisor is idle again, after a join.
C5_Witness ==
    /\ mpc = "tail"
    /\ tick.branch = "stop"
    /\ tick.joined
    /\ ~tick.trigger

(* ------------------------------------------------------------------ *)
(* C6: in the start branch (escape sampled false, trigger true, no     *)
(* handle) the supervisor clears the flag, then spawns, then stores    *)
(* the handle; the flag is false when a thread is spawned, and a       *)
(* thread returns only after the flag was set during its own run.      *)
(* ------------------------------------------------------------------ *)
C6_StartOrdering ==
    /\ [](mpc = "spawn" => ~should_stop)
    /\ [](\A t \in ThreadIds : threads[t].status = "returned" => threads[t].cancelled)
    /\ [][ mpc' # mpc =>
             /\ mpc' = "start_clear"
                  => ~tick'.escape /\ tick'.trigger /\ click_thread_handle = None
             /\ mpc = "start_clear" => mpc' = "spawn" /\ ~should_stop' /\ threads' = threads
             /\ mpc = "spawn" => mpc' = "tail" /\ click_thread_handle' # None ]_vars
    /\ [][ \A t \in ThreadIds :
             Spawned(t) => /\ mpc = "spawn"
                           /\ ~should_stop /\ ~should_stop'
                           /\ click_thread_handle' = t
                           /\ ~threads'[t].cancelled ]_vars

\* A thread spawned where the previous run had left the flag set is past
\* its first check.
C6_Witness ==
    /\ tick.branch = "start"
    /\ tick.stale
    /\ \E t \in ThreadIds :
         /\ threads[t].status = "live"
         /\ threads[t].pc # "round_check"
         /\ click_thread_handle = t

(* ------------------------------------------------------------------ *)
(* C7: an iteration that samples escape true never spawns; it sets the *)
(* flag, joins the thread if a handle is stored, and main returns      *)
(* Ok(()); after that no thread exists and nothing changes any more.   *)
(* ------------------------------------------------------------------ *)
C7_CancelPreempts ==
    /\ [](tick.escape => mpc \in { "esc_store", "esc_take", "esc_join", "exit_ok" })
    /\ [](mpc \in { "esc_take", "esc_join", "exit_ok" } => should_stop)
    /\ [](mpc = "exit_ok" => Existing = {} /\ click_thread_handle = None /\ handle = None)
    /\ [][ tick.escape => \A t \in ThreadIds : ~Spawned(t) ]_vars
    /\ [][ mpc' # mpc =>
             /\ mpc = "esc_store" => mpc' = "esc_take" /\ should_stop'
             /\ mpc = "esc_take"
                  => IF click_thread_handle # None
                     THEN mpc' = "esc_join" /\ handle' = click_thread_handle
                     ELSE mpc' = "exit_ok"
             /\ mpc = "esc_join" => mpc' = "exit_ok" /\ threads[handle].status = "returned" ]_vars
    /\ [][ mpc = "exit_ok" => UNCHANGED vars ]_vars

\* main has returned Ok(()) from an iteration that sampled escape and joined
\* a thread.
C7_Witness ==
    /\ mpc = "exit_ok"
    /\ tick.escape
    /\ tick.joined

(* ------------------------------------------------------------------ *)
(* C8: a delay of d > 0 sleeps in quanta of min(10, remaining), each   *)
(* begun right after a read of the flag as unset; the time slept never *)
(* exceeds d, is d exactly when the loop did not read the flag as set, *)
(* and no quantum is begun once it has.                                *)
(* ------------------------------------------------------------------ *)
MinOf(a, b) == IF a <= b THEN a ELSE b

C8_WaitArithmetic ==
    /\ [](\A t \in ThreadIds :
            LET r == threads[t]
            IN  /\ r.wSlept <= r.wTotal
                /\ r.wActive <=> r.pc \in { "delay_check", "delay_sleep" }
                /\ r.wActive => r.wSlept + r.remaining_delay = r.wTotal /\ ~r.wSawStop
                /\ r.pc = "delay_sleep"
                     => r.sleep_time = MinOf(Quantum, r.remaining_delay) /\ r.sleep_time > 0
                /\ (~r.wActive /\ r.wTotal > 0) => (r.wSlept = r.wTotal <=> ~r.wSawStop))
    /\ [][ \A t \in ThreadIds :
             (threads[t].pc # "delay_sleep" /\ threads'[t].pc = "delay_sleep")
                 => threads[t].pc = "delay_check" /\ ~should_stop ]_vars

\* A delay of two quanta was left after one, on reading the flag as set.
C8_Witness ==
    \E t \in ThreadIds :
        /\ ~threads[t].wActive
        /\ threads[t].wTotal = 2 * Quantum
        /\ threads[t].wSlept = Quantum
        /\ threads[t].wSawStop

(* ------------------------------------------------------------------ *)
(* C9: a round that ends without the thread having seen the flag set   *)
(* consists of the pre-round delay, then for each point in order its   *)
(* pre-delay, one simulate_click call at its (x, y) and its post-delay,*)
(* then the post-round delay; with no points there is no click at all. *)
(* ------------------------------------------------------------------ *)
Positive(d) == IF d > 0 THEN d ELSE 0

RECURSIVE StepsLog(_, _, _)
StepsLog(log, points, i) ==
    IF i > Len(points) THEN log
    ELSE StepsLog(LogSleep(LogClick(LogSleep(log, Positive(points[i][3])),
                                    points[i][1], points[i][2]),
                           Positive(points[i][4])),
                  points, i + 1)

ExpectedRound(c) ==
    LogSleep(StepsLog(LogSleep(<< >>, c.pre_round_delay), c.points, 1), c.post_round_delay)

C9_RoundContent ==
    \A t \in ThreadIds :
        LET r == threads[t]
        IN  /\ (r.roundEnded /\ ~r.observed) => r.log = ExpectedRound(config)
            /\ config.points = << >> => \A i \in 1 .. Len(r.log) : r.log[i][1] = "sleep"

\* A round over two points has ended undisturbed.
C9_Witness ==
    \E t \in ThreadIds :
        /\ threads[t].roundEnded
        /\ ~threads[t].observed
        /\ ~threads[t].clickFailed
        /\ Len(config.points) = 2
        /\ config.pre_round_delay > 0

(* ------------------------------------------------------------------ *)
(* C10: whatever simulate_click returns, the thread goes on to the     *)
(* post-delay of the same point and then to the next point; it makes   *)
(* one call per point and returns only after the flag was set.         *)
(* ------------------------------------------------------------------ *)
C10_ClickFailureSwallowed ==
    /\ [][ \A t \in ThreadIds :
             (threads[t].status = "live" /\ threads[t].pc = "click" /\ threads'[t].pc # "click")
                 => LET r == threads[t]
                        q == threads'[t]
                        post_delay == config.points[r.idx][4]
                    IN  /\ q.status = "live"
                        /\ Len(q.log) = Len(r.log) + 1
                        /\ IF post_delay > 0
                           THEN /\ q.pc = "delay_check" /\ q.wPhase = "post_click"
                                /\ q.remaining_delay = post_delay /\ q.idx = r.idx
                           ELSE q.pc = "step_check" /\ q.idx = r.idx + 1 ]_vars
    /\ [](\A t \in ThreadIds :
            LET r == threads[t]
            IN  /\ (r.clickFailed /\ r.roundEnded /\ ~r.observed) => r.log = ExpectedRound(config)
                /\ (r.clickFailed /\ r.pc = "returned") => r.cancelled)

\* A round over two points has ended undisturbed although a click failed.
C10_Witness ==
    \E t \in ThreadIds :
        /\ threads[t].roundEnded
        /\ ~threads[t].observed
        /\ threads[t].clickFailed
        /\ Len(config.points) = 2

(* ------------------------------------------------------------------ *)
(* C11: an iteration that samples escape false and trigger false with  *)
(* no handle stored takes the idle branch, which only sleeps: the flag *)
(* and the absent handle stay as they are, nothing is joined and no    *)
(* thread is spawned.                                                  *)
(* ------------------------------------------------------------------ *)
C11_StopWhileIdleNoOp ==
    /\ [][ (mpc = "sample_trigger" /\ mpc' # mpc /\ ~tick'.trigger /\ click_thread_handle = None)
             => mpc' = "idle_sleep" /\ tick'.branch = "idle" ]_vars
    /\ [][ tick'.branch = "idle"
             => /\ should_stop' = should_stop
                /\ click_thread_handle = None /\ click_thread_handle' = None
                /\ handle = None /\ handle' = None
                /\ threads' = threads
                /\ ~tick'.joined ]_vars
    /\ [](tick.branch = "idle"
            => /\ mpc \in { "idle_sleep", "tail", "loop_top" }
               /\ ~tick.escape /\ ~tick.trigger
               /\ Existing = {})

\* An idle iteration after a run was stopped: the flag is still set.
C11_Witness ==
    /\ tick.branch = "idle"
    /\ mpc = "loop_top"
    /\ should_stop

(* ------------------------------------------------------------------ *)
(* C12: when config.json cannot be read or parsed main returns an      *)
(* error before the loop: no signal was sampled, no thread spawned, no *)
(* click made; a failed SetProcessDPIAware is ignored and main goes on *)
(* to load the configuration.                                          *)
(* ------------------------------------------------------------------ *)
C12_StartupFailureFatal ==
    /\ [](loaded \in { "unreadable", "malformed" } <=> mpc = "exit_err")
    /\ [](mpc = "exit_err"
            => /\ tick = NewTick
               /\ threads = [ t \in ThreadIds |-> IdleThread ]
               /\ click_thread_handle = None /\ handle = None)
    /\ [](mpc \notin { "start", "load_config", "exit_err" } => loaded = "ok" /\ config \in Configs)
    /\ [][ mpc = "exit_err" => UNCHANGED vars ]_vars
    /\ [][ mpc = "start" /\ mpc' # mpc => mpc' = "load_config" /\ loaded' = "pending" ]_vars

\* DPI awareness could not be set, main went on to the configuration file,
\* which was malformed: main has returned the error.
C12_Witness ==
    /\ mpc = "exit_err"
    /\ loaded = "malformed"
    /\ ~dpi_aware

\* DPI awareness could not be set and the supervisor loop runs a thread.
C12_WitnessDpiIgnored ==
    /\ ~dpi_aware
    /\ loaded = "ok"
    /\ Live # {}

(* ------------------------------------------------------------------ *)
(* C13: a runner returns only in a step that finds the flag set, so a  *)
(* returned runner has been sent a stop request; while no stop request *)
(* is standing the stored handle is that of a running thread, and on   *)
(* every tick that only holds the run the same runner is still alive.  *)
(* ------------------------------------------------------------------ *)
C13_ReturnsOnlyOnFlag ==
    /\ [][ \A t \in ThreadIds :
             threads[t].status = "live" /\ threads'[t].status = "returned"
               => should_stop /\ threads[t].cancelled ]_vars
    /\ [](\A t \in ThreadIds :
             threads[t].status = "returned" => should_stop /\ threads[t].cancelled)
    /\ [](click_thread_handle # None /\ ~should_stop
            => /\ threads[click_thread_handle].status = "live"
               /\ ~threads[click_thread_handle].cancelled)
    /\ [](tick.branch = "hold"
            => /\ click_thread_handle # None
               /\ ~should_stop
               /\ threads[click_thread_handle].status = "live")
    /\ [][ tick.branch = "hold" /\ tick'.branch = "hold"
             => click_thread_handle' = click_thread_handle ]_vars

\* The supervisor is holding the run and the runner, a full round behind
\* it, is back at the top of its loop with the flag clear.
C13_Witness ==
    /\ tick.branch = "hold"
    /\ \E t \in ThreadIds :
         /\ click_thread_handle = t
         /\ threads[t].status = "live"
         /\ threads[t].pc = "round_check"
         /\ threads[t].roundEnded
         /\ ~should_stop

(* ------------------------------------------------------------------ *)
(* C14: the flag changes only in a step of main, and there only at the *)
(* three stores, each of which writes a fixed value; no step of a      *)
(* click thread changes it; and where main goes next is settled by its *)
(* position, its handle and the state of the thread it joins, the same *)
(* whatever the flag holds (main never loads it).                      *)
(* ------------------------------------------------------------------ *)
MainPcs ==
    { "start", "load_config", "loop_top", "esc_store", "esc_take", "esc_join",
      "sample_trigger", "start_clear", "spawn", "stop_store", "stop_take",
      "stop_join", "idle_sleep", "tail", "exit_ok", "exit_err" }

\* The positions main can move to next, told without the flag.
SuccPcs ==
    CASE mpc = "start"          -> { "load_config" }
      [] mpc = "load_config"    -> { "loop_top", "exit_err" }
      [] mpc = "loop_top"       -> { "esc_store", "sample_trigger" }
      [] mpc = "esc_store"      -> { "esc_take" }
      [] mpc = "esc_take"       -> IF click_thread_handle # None THEN { "esc_join" } ELSE { "exit_ok" }
      [] mpc = "esc_join"       -> IF Ended(threads[handle]) THEN { "exit_ok" } ELSE {}
      [] mpc = "sample_trigger" -> IF click_thread_handle = None
                                   THEN { "start_clear", "idle_sleep" }
                                   ELSE { "stop_store", "tail" }
      [] mpc = "start_clear"    -> { "spawn" }
      [] mpc = "spawn"          -> { "tail" }
      [] mpc = "stop_store"     -> { "stop_take" }
      [] mpc = "stop_take"      -> IF click_thread_handle # None THEN { "stop_join" } ELSE { "tail" }
      [] mpc = "stop_join"      -> IF Ended(threads[handle]) THEN { "tail" } ELSE {}
      [] mpc = "idle_sleep"     -> { "tail" }
      [] mpc = "tail"           -> { "loop_top" }
      [] OTHER                  -> {}

C14_SingleWriter ==
    /\ [][ mpc' = mpc => should_stop' = should_stop ]_vars
    /\ [][ should_stop' # should_stop
             => \/ (mpc \in { "esc_store", "stop_store" } /\ should_stop' = TRUE)
                \/ (mpc = "start_clear" /\ should_stop' = FALSE) ]_vars
    /\ [][ (mpc \in { "esc_store", "stop_store" } /\ mpc' # mpc) => (should_stop' = TRUE) ]_vars
    /\ [][ (mpc = "start_clear" /\ mpc' # mpc) => (should_stop' = FALSE) ]_vars
    /\ [](\A p \in MainPcs : p \in SuccPcs <=> ENABLED (Supervisor /\ mpc' = p))

\* A click thread has read the flag set and returned; the flag is as main
\* wrote it, and main is now blocked in nothing: its join can go on.
C14_Witness ==
    /\ mpc = "stop_join"
    /\ threads[handle].status = "returned"
    /\ threads[handle].clicksAfterCancel = 0
    /\ Len(threads[handle].log) > 0
    /\ should_stop

(* ------------------------------------------------------------------ *)
(* C15: an iteration of main's loop that ends with a handle stored has *)
(* slept once, for 1 ms; an iteration that found no handle and the     *)
(* trigger released has slept once, for 10 ms; an iteration that ends  *)
(* without a handle after a stop has not slept; none sleeps twice.     *)
(* ------------------------------------------------------------------ *)
C15_SleepCadence ==
    /\ [](mpc = "loop_top" /\ tick.branch # "none"
            => /\ (click_thread_handle # None => tick.sleeps = << 1 >>)
               /\ (tick.branch = "idle" => tick.sleeps = << 10 >>)
               /\ (tick.branch = "stop" => tick.sleeps = << >>)
               /\ (tick.branch \in { "start", "hold" } => click_thread_handle # None)
               /\ (tick.branch \in { "idle", "stop" } => click_thread_handle = None))
    /\ [](Len(tick.sleeps) <= 1)
    /\ [](tick.branch = "cancel" => tick.sleeps = << >>)

\* The iteration that started the run has ended: it slept 1 ms.
C15_Witness ==
    /\ mpc = "loop_top"
    /\ tick.branch = "start"
    /\ click_thread_handle # None
    /\ tick.sleeps = << 1 >>

\* An idle iteration has ended: it slept 10 ms.
C15_WitnessIdle ==
    /\ mpc = "loop_top"
    /\ tick.branch = "idle"
    /\ tick.sleeps = << 10 >>

DelayOf(r, phase) ==
    CASE phase = "pre_round"  -> config.pre_round_delay
      [] phase = "post_round" -> config.post_round_delay
      [] phase = "pre_click"  -> config.points[r.idx][3]
      [] phase = "post_click" -> config.points[r.idx][4]

InDelayLoop(r) == r.status = "live" /\ r.pc \in { "delay_check", "delay_sleep" }

C17_NonPositiveDelaysSkipped ==
    /\ [](\A t \in ThreadIds :
            LET r == threads[t]
            IN  InDelayLoop(r)
                  => /\ r.wActive
                     /\ DelayOf(r, r.wPhase) > 0
                     /\ r.wTotal = DelayOf(r, r.wPhase)
                     /\ r.remaining_delay <= r.wTotal)
    /\ [][ \A t \in ThreadIds :
             LET r == threads[t]
                 q == threads'[t]
             IN  /\ (r.status = "live" /\ r.pc = "click" /\ q.pc # "click"
                       /\ config.points[r.idx][4] <= 0)
                      => q.pc = "step_check" /\ q.idx = r.idx + 1 /\ Len(q.log) = Len(r.log) + 1
                 /\ (r.status = "live" /\ r.pc = "step_check" /\ q.pc # "step_check"
                       /\ r.idx <= Len(config.points) /\ ~should_stop
                       /\ config.points[r.idx][3] <= 0)
                      => q.pc = "click_check" /\ q.log = r.log
                 /\ (r.status = "live" /\ r.pc = "round_check" /\ q.pc # "round_check"
                       /\ ~should_stop /\ config.pre_round_delay = 0)
                      => q.pc = "pre_round_stop_check" /\ q.log = << >>
                 /\ (r.status = "live" /\ r.pc \in { "step_check", "click_check" }
                       /\ q.pc \notin { "step_check", "click_check", "click", "delay_check" })
                      => q.pc = "round_check" /\ config.post_round_delay = 0 /\ q.log = r.log
           ]_vars

\* The step with delays -1 and -3 is behind the thread: its click is the
\* last thing the thread did, and it slept neither before nor after it.
C17_Witness ==
    \E t \in ThreadIds :
        LET r == threads[t]
        IN  /\ r.status = "live"
            /\ r.pc = "step_check"
            /\ r.idx = 3
            /\ config.points[1] = << 100, 200, 0, 5 >>
            /\ config.points[2] = << 7, 9, -1, -3 >>
            /\ r.log[Len(r.log)] = << "click", 7, 9 >>
            /\ r.log[Len(r.log) - 1] = << "sleep", 5 >>

(* ------------------------------------------------------------------ *)
(* C18: a click is made only by a thread whose handle main holds,      *)
(* stored in click_thread_handle or moved out of it and being joined;  *)
(* when main holds no handle (idle, or between a join and the next     *)
(* spawn) and when main has returned, no click thread exists, so no    *)
(* click can be made.                                                  *)
(* ------------------------------------------------------------------ *)
Held(t) ==
    \/ click_thread_handle = t
    \/ handle = t /\ mpc \in { "stop_join", "esc_join" }

C18_ClicksOnlyInsideRun ==
    /\ [][ \A t \in ThreadIds :
             (threads[t].pc = "click" /\ threads'[t].pc # "click")
               => /\ Held(t)
                  /\ mpc \notin { "start", "load_config", "exit_ok", "exit_err",
                                  "idle_sleep", "start_clear", "spawn" } ]_vars
    /\ [](\A t \in Existing : Held(t))
    /\ []((click_thread_handle = None /\ handle = None) => Existing = {})
    /\ [](mpc \in { "idle_sleep", "start_clear", "spawn", "exit_ok", "exit_err" } => Existing = {})
    /\ [](tick.joined => Existing = {})

\* Main is blocked in join while the thread it joins, already asked to
\* stop, has just made a click.
C18_Witness ==
    /\ mpc = "stop_join"
    /\ click_thread_handle = None
    /\ threads[handle].status = "live"
    /\ threads[handle].clicksAfterCancel = 1
    /\ threads[handle].log[Len(threads[handle].log)][1] = "click"

(* ------------------------------------------------------------------ *)
(* C19: the flag goes from set to clear only in the store of the start *)
(* branch, and then no click thread exists; a thread that has been     *)
(* asked to stop finds the flag set for as long as it lives.           *)
(* ------------------------------------------------------------------ *)
C19_NoLostCancellation ==
    /\ [][ (should_stop = TRUE /\ should_stop' = FALSE)
             => /\ mpc = "start_clear"
                /\ Existing = {}
                /\ click_thread_handle = None /\ handle = None ]_vars
    /\ [][ (mpc = "start_clear" /\ mpc' # mpc) => Existing = {} ]_vars
    /\ [](\A t \in ThreadIds :
            (threads[t].status = "live" /\ threads[t].cancelled) => should_stop)
    /\ [][ \A t \in ThreadIds :
             (threads[t].status = "live" /\ threads[t].cancelled)
               => /\ threads'[t].status \in { "live", "returned" }
                  /\ threads'[t].cancelled ]_vars

\* The start branch has just cleared a flag that the stop of the previous
\* run had left set; that run's thread has been joined.
C19_Witness ==
    /\ mpc = "spawn"
    /\ tick.stale
    /\ ~should_stop
    /\ \E t \in ThreadIds : threads[t].status = "unused" /\ threads[t].cancelled

(* ------------------------------------------------------------------ *)
(* C20: a new thread starts at the top of the loop with nothing of the *)
(* thread that ran before it: its first step, the flag being clear, is *)
(* into the pre-round delay with the whole of pre_round_delay to wait  *)
(* (or past it when that is 0), a pre-round delay is always waited in  *)
(* full from position 0, the step after it is the first point, and the *)
(* first click of a round is at the first point.                       *)
(* ------------------------------------------------------------------ *)
C20_RunStartsFromBeginning ==
    /\ [][ \A t \in ThreadIds :
             Spawned(t) => threads'[t] = [ IdleThread EXCEPT !.status = "live" ] ]_vars
    /\ [][ \A t \in ThreadIds :
             LET r == threads[t]
                 q == threads'[t]
             IN  (r.status = "live" /\ r.pc = "round_check" /\ q.pc # "round_check" /\ ~should_stop)
                   => /\ q.idx = 0 /\ q.log = << >>
                      /\ IF config.pre_round_delay > 0
                         THEN /\ q.pc = "delay_check" /\ q.wPhase = "pre_round"
                              /\ q.remaining_delay = config.pre_round_delay
                              /\ q.wSlept = 0
                         ELSE q.pc = "pre_round_stop_check" ]_vars
    /\ [][ \A t \in ThreadIds :
             (threads[t].pc = "pre_round_stop_check" /\ threads'[t].pc = "step_check")
               => threads'[t].idx = 1 ]_vars
    /\ [](\A t \in ThreadIds :
            LET r == threads[t]
            IN  /\ (r.status = "live" /\ r.pc \in { "delay_check", "delay_sleep" }
                      /\ r.wPhase = "pre_round")
                     => /\ r.idx = 0
                        /\ r.wTotal = config.pre_round_delay
                        /\ r.remaining_delay + r.wSlept = r.wTotal
                /\ (r.status = "live" /\ r.pc = "step_check") => r.idx >= 1
                /\ r.status = "live"
                     => \A i \in 1 .. Len(r.log) :
                          (r.log[i][1] = "click" /\ \A j \in 1 .. i - 1 : r.log[j][1] # "click")
                            => r.log[i] = << "click", config.points[1][1], config.points[1][2] >>)

\* The last run was stopped in its second step with part of a delay still
\* to wait; the new thread has waited its pre-round delay and made its
\* first click, at the first point.
C20_Witness ==
    /\ tick.prevIdx = 2
    /\ tick.prevRemaining > 0
    /\ \E t \in ThreadIds :
         /\ click_thread_handle = t
         /\ threads[t].status = "live"
         /\ threads[t].idx = 1
         /\ config.pre_round_delay > 0
         /\ Len(threads[t].log) >= 2
         /\ threads[t].log[1] = << "sleep", config.pre_round_delay >>
         /\ threads[t].log[Len(threads[t].log)][1] = "click"

====
